---------------------------- MODULE Spec2Model ----------------------------
(***************************************************************************)
(* Hamming(7,4) codec of hmolavi/hamming74 (src/hamming.c).                *)
(*                                                                         *)
(* C arrays are modelled as functions over 0-based index sets, so that the *)
(* index arithmetic of the source (mask - 1, i & (i + 1), i * 7 + j, ...)  *)
(* is kept literally.  Every function of the source is an operator that    *)
(* runs its loops as the code runs them.  An action is one call, except    *)
(* for hamming_decode_74, whose loop is taken one iteration at a time      *)
(* because an iteration may read memory outside the array it was given.    *)
(***************************************************************************)
EXTENDS Integers, FiniteSets, Sequences, TLC

(* ------------------------------ bounds -------------------------------- *)

\* Largest number of blocks handed to hamming_encode_74 / hamming_decode_74.
MaxBlocks == 2
\* Largest byte count handed to hamming_encode_generic.
MaxBytes == 1
\* Largest array length handed to calculate_syndrome.
MaxN == 8

(* ------------------------- program constants -------------------------- *)

\* int n = 7 in hamming_encode_nibble; the 7 of hamming_decode_nibble.
CodeLen == 7
\* int r = 3 in hamming_encode_nibble.
ParityBits == 3
\* int block[4]: bits per nibble.
NibbleLen == 4

Bit == {0, 1}
Byte == 0 .. 255

(* --------------------------- C bit operators -------------------------- *)

\* 1 << p
Shl1(p) == 2 ^ p

\* a & b on non-negative ints
RECURSIVE BitAnd(_, _)
BitAnd(a, b) ==
    IF a = 0 \/ b = 0 THEN 0
    ELSE ((a % 2) * (b % 2)) + 2 * BitAnd(a \div 2, b \div 2)

\* x & mask for a mask with a single bit set (mask = 1 << p): the mask if
\* that bit of x is set, else 0
AndMask(x, mask) == ((x \div mask) % 2) * mask

\* a | b on non-negative ints
RECURSIVE BitOr(_, _)
BitOr(a, b) ==
    IF a = 0 THEN b
    ELSE IF b = 0 THEN a
    ELSE (IF (a % 2) + (b % 2) > 0 THEN 1 ELSE 0) + 2 * BitOr(a \div 2, b \div 2)

\* a ^ b on non-negative ints
RECURSIVE BitXor(_, _)
BitXor(a, b) ==
    IF a = 0 THEN b
    ELSE IF b = 0 THEN a
    ELSE (((a % 2) + (b % 2)) % 2) + 2 * BitXor(a \div 2, b \div 2)

(* ---------------------------- parity_check ---------------------------- *)

\* the for loop of parity_check: i runs from its current value to n - 1
RECURSIVE ParityLoop(_, _, _, _, _)
ParityLoop(n, data, mask, i, sum) ==
    IF i < n
    THEN ParityLoop(n, data, mask, i + 1,
                    IF AndMask(i + 1, mask) # 0 THEN BitXor(sum, data[i]) ELSE sum)
    ELSE sum

\* variant: the loop starts one past the parity bit (int i = mask)
ParityStartAfter(mask) == mask

\* int i = mask - 1: the loop starts at the parity bit's own index
ParityStart(mask) == mask - 1

parity_check(n, data, p) == ParityLoop(n, data, Shl1(p), ParityStart(Shl1(p)), 0)

(* ------------------------- calculate_syndrome ------------------------- *)

\* variant: the check bit shifted one place too far (check << (p + 1))
SyndromeBitShifted(check, p) == check * Shl1(p + 1)

\* check << p
SyndromeBit(check, p) == check * Shl1(p)

\* the while loop of calculate_syndrome, from parity index p on
RECURSIVE SyndromeLoop(_, _, _, _)
SyndromeLoop(n, encoded, p, syn) ==
    IF Shl1(p) <= n
    THEN IF Shl1(p) - 1 >= n
         THEN syn
         ELSE SyndromeLoop(n, encoded, p + 1,
                           BitOr(syn, SyndromeBit(parity_check(n, encoded, p), p)))
    ELSE syn

calculate_syndrome(n, encoded) == SyndromeLoop(n, encoded, 0, 0)

(* ------------------------ hamming_encode_nibble ----------------------- *)

\* variant: the output buffer is not cleared first
ZeroFillSkipped(buf) == buf

\* first loop: encoded_data[i] = 0 for i < n
ZeroFill(buf) == [i \in DOMAIN buf |-> IF i < CodeLen THEN 0 ELSE buf[i]]

\* second loop: data bits go to the indices that are not 2^k - 1
RECURSIVE PlaceLoop(_, _, _, _)
PlaceLoop(enc, data, i, j) ==
    IF i < CodeLen
    THEN IF BitAnd(i, i + 1) = 0
         THEN PlaceLoop(enc, data, i + 1, j)
         ELSE PlaceLoop([enc EXCEPT ![i] = data[j]], data, i + 1, j + 1)
    ELSE enc

\* third loop: parity bits, each computed on the array as it stands
RECURSIVE FillParity(_, _)
FillParity(enc, p) ==
    IF p < ParityBits
    THEN FillParity([enc EXCEPT ![Shl1(p) - 1] = parity_check(CodeLen, enc, p)], p + 1)
    ELSE enc

\* encoded is the output buffer with the contents it has at the call
hamming_encode_nibble(data, encoded) ==
    FillParity(PlaceLoop(ZeroFill(encoded), data, 0, 0), 0)

(* ------------------------ hamming_decode_nibble ----------------------- *)

\* variant: the syndrome used as the index, without the conversion to 0-based
CorrectOffByOne(encoded, syn) ==
    IF syn # 0 /\ syn < CodeLen
    THEN [encoded EXCEPT ![syn] = BitXor(encoded[syn], 1)]
    ELSE encoded

\* variant: the syndrome is computed but no bit is flipped
CorrectNothing(encoded, syn) == encoded

\* the correction: encoded_data[error_pos] ^= 1 under the two guards
Correct(encoded, syn) ==
    IF syn # 0 /\ syn - 1 < CodeLen
    THEN [encoded EXCEPT ![syn - 1] = BitXor(encoded[syn - 1], 1)]
    ELSE encoded

\* variant: the second data bit taken from the parity index 3
ExtractShifted(encoded) ==
    [k \in 0 .. NibbleLen - 1 |->
        IF k = 0 THEN encoded[2]
        ELSE IF k = 1 THEN encoded[3]
        ELSE IF k = 2 THEN encoded[5]
        ELSE encoded[6]]

\* the data bits of a codeword: indices 2, 4, 5, 6
Extract(encoded) ==
    [k \in 0 .. NibbleLen - 1 |->
        IF k = 0 THEN encoded[2]
        ELSE IF k = 1 THEN encoded[4]
        ELSE IF k = 2 THEN encoded[5]
        ELSE encoded[6]]

\* the buffer after the call, the nibble written and the local syndrome
hamming_decode_nibble(encoded) ==
    LET syn == calculate_syndrome(CodeLen, encoded)
        fixed == Correct(encoded, syn)
    IN  [encoded_data |-> fixed, decoded_data |-> Extract(fixed), syndrome |-> syn]


(* -------------------------- buffers in memory ------------------------- *)

\* the function with no index: a buffer nothing has been written to
Empty == [x \in {} |-> 0]

\* buf[idx] through a pointer to len elements; an index at or beyond len is
\* outside the object, and the read yields whatever that memory holds
MemRead(buf, len, beyond, idx) == IF idx < len THEN buf[idx] ELSE beyond[idx]

\* out[base + j] = vals[j] for j < len; out maps each index written so far
WriteRun(out, base, vals, len) ==
    [x \in (DOMAIN out) \cup (base .. base + len - 1) |->
        IF x \in base .. base + len - 1 THEN vals[x - base] ELSE out[x]]

\* contents of an uninitialised int encoded[7]: all zeros or all ones (the
\* encoder clears the array before it reads it)
StackJunk == {[i \in 0 .. CodeLen - 1 |-> b] : b \in Bit}

(* -------------------------- hamming_encode_74 ------------------------- *)

\* variant: the input index used unscaled (i * 7)
OutBase74Unscaled(i) == i * 7

\* out_bits index of the codeword of the block at input index i: (i / 4) * 7
OutBase74(i) == (i \div 4) * 7

\* one past the last input_bits index the loop of hamming_encode_74 reads
Encode74ReadEnd(total_bits) == ((total_bits + 3) \div 4) * 4

\* the for loop of hamming_encode_74 from i on; st.out is out_bits as written
\* so far, st.rd the input_bits indices read, st.blocks the iterations run
RECURSIVE Encode74Loop(_, _, _, _, _, _)
Encode74Loop(input, total_bits, beyond, junk, i, st) ==
    IF i < total_bits
    THEN LET block == [k \in 0 .. NibbleLen - 1 |->
                          MemRead(input, total_bits, beyond, i + k)]
             encoded == hamming_encode_nibble(block, junk)
         IN  Encode74Loop(input, total_bits, beyond, junk, i + 4,
                 [out    |-> WriteRun(st.out, OutBase74(i), encoded, CodeLen),
                  rd     |-> st.rd \cup (i .. i + 3),
                  blocks |-> st.blocks + 1,
                  input  |-> st.input])
    ELSE st

hamming_encode_74(input, total_bits, beyond, junk) ==
    Encode74Loop(input, total_bits, beyond, junk, 0,
                 [out |-> Empty, rd |-> {}, blocks |-> 0, input |-> input])

(* -------------------------- hamming_decode_74 ------------------------- *)

\* the loop bound of hamming_decode_74: i < total_bits / 4
Decode74Bound(total_bits) == total_bits \div 4

\* the in_bits indices iteration i reads that lie outside the total_bits given
Decode74Beyond(total_bits, i) == {x \in i * 7 .. i * 7 + 6 : x >= total_bits}

\* one iteration of the for loop of hamming_decode_74; st.out is decoded_bits
\* as written so far, st.rd the in_bits indices read, st.input is in_bits
Decode74Iter(input, total_bits, beyond, i, st) ==
    LET encoded == [j \in 0 .. CodeLen - 1 |->
                       MemRead(input, total_bits, beyond, i * 7 + j)]
        block == hamming_decode_nibble(encoded).decoded_data
    IN  [out   |-> WriteRun(st.out, i * 4, block, NibbleLen),
         rd    |-> st.rd \cup (i * 7 .. i * 7 + 6),
         input |-> st.input]

(* ------------------------ hamming_encode_generic ---------------------- *)

\* variant: low nibble for even i, high nibble for odd i
NibbleOfLowFirst(bytes, i) ==
    IF i % 2 = 0 THEN BitAnd(bytes[i \div 2], 15) ELSE bytes[i \div 2] \div 16

\* the nibble of loop index i: high nibble for even i, low nibble for odd i
NibbleOf(bytes, i) ==
    IF i % 2 = 0 THEN bytes[i \div 2] \div 16 ELSE BitAnd(bytes[i \div 2], 15)

\* block[0..3] = (nibble >> 3) & 1, (nibble >> 2) & 1, (nibble >> 1) & 1, nibble & 1
NibbleBits(nibble) ==
    [k \in 0 .. NibbleLen - 1 |-> BitAnd(nibble \div Shl1(3 - k), 1)]

\* the for loop of hamming_encode_generic from i on; out is out_bits as written
RECURSIVE GenericLoop(_, _, _, _, _)
GenericLoop(bytes, nibble_count, junk, i, out) ==
    IF i < nibble_count
    THEN LET encoded == hamming_encode_nibble(NibbleBits(NibbleOf(bytes, i)), junk)
         IN  GenericLoop(bytes, nibble_count, junk, i + 1,
                         WriteRun(out, i * 7, encoded, CodeLen))
    ELSE out

hamming_encode_generic(bytes, data_size, junk) ==
    GenericLoop(bytes, data_size * 2, junk, 0, Empty)

(* ------------------------------- state -------------------------------- *)

VARIABLES
    pc,            \* which call was made last
    data,          \* hamming_encode_nibble: the nibble
    encoded_data,  \* hamming_encode_nibble: the output buffer
    flipped,       \* the codeword indices corrupted after encoding
    received,      \* hamming_decode_nibble: its encoded_data buffer
    syndrome,      \* the value calculate_syndrome returned
    decoded_data,  \* hamming_decode_nibble: the nibble written
    n,             \* calculate_syndrome: the length
    bits,          \* calculate_syndrome: the array
    input_bits,    \* hamming_encode_74: the input array
    in_bits,       \* hamming_decode_74: the input array
    total_bits,    \* hamming_encode_74 / hamming_decode_74: the length given
    out_bits,      \* hamming_encode_74 / _generic: out_bits, by index written
    decoded_bits,  \* hamming_decode_74: decoded_bits, by index written
    rd,            \* the input indices the block call read
    blocks,        \* the loop iterations the block call ran
    bytes,         \* hamming_encode_generic: the byte buffer
    data_size      \* hamming_encode_generic: the byte count

vars == <<pc, data, encoded_data, flipped, received, syndrome, decoded_data,
          n, bits, input_bits, in_bits, total_bits, out_bits, decoded_bits,
          rd, blocks, bytes, data_size>>

nibbleVars == <<data, encoded_data, flipped, received, syndrome, decoded_data>>
syndromeVars == <<n, bits>>
blockVars == <<input_bits, in_bits, total_bits, out_bits, decoded_bits, rd, blocks>>
genericVars == <<bytes, data_size>>

\* arrays of len bits
BitArrays(len) == [0 .. len - 1 -> Bit]

Init ==
    /\ pc = "idle"
    /\ data = Empty
    /\ encoded_data = Empty
    /\ flipped = {}
    /\ received = Empty
    /\ syndrome = 0
    /\ decoded_data = Empty
    /\ n = 0
    /\ bits = Empty
    /\ input_bits = Empty
    /\ in_bits = Empty
    /\ total_bits = 0
    /\ out_bits = Empty
    /\ decoded_bits = Empty
    /\ rd = {}
    /\ blocks = 0
    /\ bytes = Empty
    /\ data_size = 0

(* ------------------------------ actions ------------------------------- *)

\* a call of hamming_encode_nibble; prior is what the caller's output buffer
\* holds at the call
EncodeNibble ==
    /\ pc = "idle"
    /\ \E d \in BitArrays(NibbleLen) :
          \E prior \in BitArrays(CodeLen) :
             /\ data' = d
             /\ encoded_data' = hamming_encode_nibble(d, prior)
    /\ pc' = "encoded"
    /\ UNCHANGED <<flipped, received, syndrome, decoded_data>>
    /\ UNCHANGED <<syndromeVars, blockVars, genericVars>>

\* w with the bits at the indices of F inverted
Flip(w, F) == [i \in DOMAIN w |-> IF i \in F THEN 1 - w[i] ELSE w[i]]

\* the codeword is corrupted on its way to the decoder
Corrupt ==
    /\ pc = "encoded"
    /\ \E F \in SUBSET (0 .. CodeLen - 1) :
          /\ flipped' = F
          /\ received' = Flip(encoded_data, F)
    /\ pc' = "received"
    /\ UNCHANGED <<data, encoded_data, syndrome, decoded_data>>
    /\ UNCHANGED <<syndromeVars, blockVars, genericVars>>

\* a call of hamming_decode_nibble on the received buffer
DecodeNibble ==
    /\ pc = "received"
    /\ \E r \in {hamming_decode_nibble(received)} :
           /\ received' = r.encoded_data
           /\ decoded_data' = r.decoded_data
           /\ syndrome' = r.syndrome
    /\ pc' = "decoded"
    /\ UNCHANGED <<data, encoded_data, flipped>>
    /\ UNCHANGED <<syndromeVars, blockVars, genericVars>>

\* a call of calculate_syndrome on an array of any length
CalcSyndrome ==
    /\ pc = "idle"
    /\ \E len \in 0 .. MaxN :
          \E a \in BitArrays(len) :
             /\ n' = len
             /\ bits' = a
             /\ syndrome' = calculate_syndrome(len, a)
    /\ pc' = "syndrome"
    /\ UNCHANGED <<data, encoded_data, flipped, received, decoded_data>>
    /\ UNCHANGED <<blockVars, genericVars>>

\* the caller hands hamming_encode_74 an array of k nibbles
CallEncode74 ==
    /\ pc = "idle"
    /\ \E k \in 0 .. MaxBlocks :
          \E a \in BitArrays(4 * k) :
             /\ input_bits' = a
             /\ total_bits' = 4 * k
    /\ pc' = "call_encode74"
    /\ UNCHANGED <<in_bits, out_bits, decoded_bits, rd, blocks>>
    /\ UNCHANGED <<nibbleVars, syndromeVars, genericVars>>

\* hamming_encode_74 runs; r is the result of the call
Encode74 ==
    /\ pc = "call_encode74"
    /\ \E junk \in StackJunk :
          \E beyond \in [total_bits .. Encode74ReadEnd(total_bits) - 1 -> Bit] :
             \E r \in {hamming_encode_74(input_bits, total_bits, beyond, junk)} :
                 /\ input_bits' = r.input
                 /\ out_bits' = r.out
                 /\ rd' = r.rd
                 /\ blocks' = r.blocks
    /\ pc' = "encoded74"
    /\ UNCHANGED <<in_bits, total_bits, decoded_bits>>
    /\ UNCHANGED <<nibbleVars, syndromeVars, genericVars>>

\* the arrays a caller hands hamming_decode_74: the encoding of k nibbles with
\* at most one bit of the whole array corrupted
Received74(k) ==
    {Flip(hamming_encode_74(a, 4 * k, Empty, [x \in 0 .. CodeLen - 1 |-> 0]).out, F) :
        a \in BitArrays(4 * k), F \in {{}} \cup {{x} : x \in 0 .. 7 * k - 1}}

\* the caller hands hamming_decode_74 an array of k 7-bit groups; the loop is
\* at i = 0
CallDecode74 ==
    /\ pc = "idle"
    /\ \E k \in 0 .. MaxBlocks :
          \E a \in Received74(k) :
             /\ in_bits' = a
             /\ total_bits' = 7 * k
    /\ pc' = "decode74"
    /\ UNCHANGED <<input_bits, out_bits, decoded_bits, rd, blocks>>
    /\ UNCHANGED <<nibbleVars, syndromeVars, genericVars>>

\* one iteration of the loop of hamming_decode_74; blocks is its counter i,
\* beyond is what the memory past the total_bits elements of in_bits holds
\* (any bits), r the iteration's result
Decode74Step ==
    /\ pc = "decode74"
    /\ blocks < Decode74Bound(total_bits)
    /\ \E beyond \in [Decode74Beyond(total_bits, blocks) -> Bit] :
          \E r \in {Decode74Iter(in_bits, total_bits, beyond, blocks,
                                [out |-> decoded_bits, rd |-> rd, input |-> in_bits])} :
              /\ in_bits' = r.input
              /\ decoded_bits' = r.out
              /\ rd' = r.rd
    /\ blocks' = blocks + 1
    /\ UNCHANGED <<pc, input_bits, total_bits, out_bits>>
    /\ UNCHANGED <<nibbleVars, syndromeVars, genericVars>>

\* the loop of hamming_decode_74 ends and the call returns
Decode74Return ==
    /\ pc = "decode74"
    /\ ~(blocks < Decode74Bound(total_bits))
    /\ pc' = "decoded74"
    /\ UNCHANGED blockVars
    /\ UNCHANGED <<nibbleVars, syndromeVars, genericVars>>

\* the caller hands hamming_encode_generic a byte buffer
CallGeneric ==
    /\ pc = "idle"
    /\ \E size \in 0 .. MaxBytes :
          \E b \in [0 .. size - 1 -> Byte] :
             /\ bytes' = b
             /\ data_size' = size
    /\ pc' = "call_generic"
    /\ UNCHANGED <<nibbleVars, syndromeVars, blockVars>>

\* hamming_encode_generic runs
EncodeGeneric ==
    /\ pc = "call_generic"
    /\ \E junk \in StackJunk :
          out_bits' = hamming_encode_generic(bytes, data_size, junk)
    /\ pc' = "generic"
    /\ UNCHANGED <<input_bits, in_bits, total_bits, decoded_bits, rd, blocks>>
    /\ UNCHANGED <<nibbleVars, syndromeVars, genericVars>>

NextNibble == EncodeNibble \/ Corrupt \/ DecodeNibble \/ CalcSyndrome
NextEncode == CallEncode74 \/ Encode74 \/ CallGeneric \/ EncodeGeneric
NextDecode == CallDecode74 \/ Decode74Step \/ Decode74Return
Next == NextNibble \/ NextEncode \/ NextDecode

SpecNibble == Init /\ [][NextNibble]_vars
SpecEncode == Init /\ [][NextEncode]_vars
Spec == Init /\ [][Next]_vars

(* ------------------------- notation for claims ------------------------ *)

\* the C array whose elements are those of the sequence q
Arr(q) == [k \in 0 .. Len(q) - 1 |-> q[k + 1]]

\* the len elements of f from index base on
Slice(f, base, len) == [k \in 0 .. len - 1 |-> f[base + k]]

\* the number of indices at which two arrays of equal length differ
Distance(a, b) == Cardinality({i \in DOMAIN a : a[i] # b[i]})

\* the even parity of three bits
Xor3(a, b, c) == (a + b + c) % 2

\* the codeword the decoder was handed, before its in-place correction
ReceivedWord == Flip(encoded_data, flipped)

(* ------------------------------- claims ------------------------------- *)

\* C1: whenever at most one bit of the codeword of a nibble is flipped before
\* decoding, hamming_decode_nibble returns exactly the nibble that was encoded.
C1_SingleFlipCorrected ==
    (pc = "decoded" /\ Cardinality(flipped) <= 1) => decoded_data = data

\* C1 witness: scenario B, nibble 1011 with index 4 flipped, decoded to 1011.
C1_Witness ==
    /\ pc = "decoded"
    /\ data = Arr(<<1, 0, 1, 1>>)
    /\ flipped = {4}
    /\ ReceivedWord = Arr(<<0, 1, 1, 0, 1, 1, 1>>)
    /\ decoded_data = Arr(<<1, 0, 1, 1>>)

\* C2: called with total_bits = 7k, hamming_decode_74 runs exactly k blocks,
\* reads no in_bits index at or beyond total_bits, writes no decoded_bits index
\* at or beyond 4k, and output nibble j is the nibble decoder's result for
\* in_bits[7j .. 7j+6]; for total_bits = 14 the result is the concatenation
\* of the two groups decoded separately.
C2_DecodeExactlyKBlocks ==
    pc = "decoded74" =>
        LET k == total_bits \div 7
        IN  /\ blocks = k
            /\ rd \subseteq 0 .. total_bits - 1
            /\ DOMAIN decoded_bits = 0 .. 4 * k - 1
            /\ \A j \in 0 .. k - 1 :
                  Slice(decoded_bits, 4 * j, NibbleLen)
                      = hamming_decode_nibble(Slice(in_bits, 7 * j, CodeLen)).decoded_data

\* C3: called with total_bits = 4k, hamming_encode_74 writes exactly the
\* out_bits indices 0 .. 7k-1, block j being the nibble encoder's codeword of
\* input_bits[4j .. 4j+3], and reads no input_bits index at or beyond
\* total_bits; so the encoding of two nibbles is the concatenation of the two
\* separate encodings.
C3_EncodeBlockwise ==
    pc = "encoded74" =>
        LET k == total_bits \div 4
        IN  /\ blocks = k
            /\ DOMAIN out_bits = 0 .. 7 * k - 1
            /\ rd = 0 .. total_bits - 1
            /\ \A j \in 0 .. k - 1 :
                  /\ Slice(out_bits, 7 * j, CodeLen)
                        = hamming_encode_nibble(Slice(input_bits, 4 * j, NibbleLen),
                                                Arr(<<1, 1, 1, 1, 1, 1, 1>>))
                  /\ Slice(out_bits, 7 * j, CodeLen)
                        = hamming_encode_74(Slice(input_bits, 4 * j, NibbleLen), 4,
                                            Empty, Arr(<<0, 0, 0, 0, 0, 0, 0>>)).out

\* C3 witness: the two nibbles 1011 0001 encoded into 14 bits.
C3_Witness ==
    /\ pc = "encoded74"
    /\ total_bits = 8
    /\ input_bits = Arr(<<1, 0, 1, 1, 0, 0, 0, 1>>)
    /\ out_bits = Arr(<<0, 1, 1, 0, 0, 1, 1, 1, 1, 0, 1, 0, 0, 1>>)

\* C4: the syndrome of every codeword the encoder produces is 0, and the
\* syndrome of such a codeword with exactly the bit at index i flipped is i + 1.
C4_SyndromeIsPosition ==
    pc = "decoded" =>
        /\ flipped = {} => syndrome = 0
        /\ \A i \in 0 .. CodeLen - 1 : flipped = {i} => syndrome = i + 1

\* C4 witness: the last codeword bit flipped, syndrome 7.
C4_Witness ==
    /\ pc = "decoded"
    /\ flipped = {6}
    /\ syndrome = 7

\* C5: with two distinct bits of a codeword flipped, the syndrome is non-zero,
\* the index it names is neither of the two, and the nibble decoded differs
\* from the one encoded.
C5_DoubleFlipMiscorrected ==
    (pc = "decoded" /\ Cardinality(flipped) = 2) =>
        /\ syndrome # 0
        /\ syndrome - 1 \in (0 .. CodeLen - 1) \ flipped
        /\ received = Flip(ReceivedWord, {syndrome - 1})
        /\ decoded_data # data

\* C5 witness: scenario C, indices 0 and 2 flipped, index 1 "corrected".
C5_Witness ==
    /\ pc = "decoded"
    /\ flipped = {0, 2}
    /\ syndrome = 2
    /\ decoded_data # data

\* C6: whatever the output buffer held, hamming_encode_nibble leaves in it
\* d1 d2 d3 d4 at the indices 2, 4, 5, 6 and d1^d2^d4, d1^d3^d4, d2^d3^d4 at
\* the indices 0, 1, 3.
C6_ReferenceLayout ==
    pc = "encoded" =>
        /\ DOMAIN encoded_data = 0 .. CodeLen - 1
        /\ encoded_data[2] = data[0]
        /\ encoded_data[4] = data[1]
        /\ encoded_data[5] = data[2]
        /\ encoded_data[6] = data[3]
        /\ encoded_data[0] = Xor3(data[0], data[1], data[3])
        /\ encoded_data[1] = Xor3(data[0], data[2], data[3])
        /\ encoded_data[3] = Xor3(data[1], data[2], data[3])

\* C6 witness: scenario A, 1011 encoded to 0110011.
C6_Witness ==
    /\ pc = "encoded"
    /\ data = Arr(<<1, 0, 1, 1>>)
    /\ encoded_data = Arr(<<0, 1, 1, 0, 0, 1, 1>>)

\* the 8 * size bits of a byte buffer, each byte most significant bit first
ExpandMsbFirst(b, size) ==
    [x \in 0 .. 8 * size - 1 |-> (b[x \div 8] \div (2 ^ (7 - (x % 8)))) % 2]

\* C7: hamming_encode_generic on N bytes writes exactly 14 N bits, which are
\* hamming_encode_74's output for the 8 N bits of the buffer taken byte by
\* byte, most significant bit first.
C7_GenericIsEncode74 ==
    pc = "generic" =>
        /\ DOMAIN out_bits = 0 .. data_size * 2 * 7 - 1
        /\ out_bits = hamming_encode_74(ExpandMsbFirst(bytes, data_size), 8 * data_size,
                                        Empty, Arr(<<0, 0, 0, 0, 0, 0, 0>>)).out

\* C7 witness: the byte 0xB1, encoded as the codewords of 1011 and of 0001.
C7_Witness ==
    /\ pc = "generic"
    /\ data_size = 1
    /\ bytes = Arr(<<177>>)
    /\ out_bits = Arr(<<0, 1, 1, 0, 0, 1, 1, 1, 1, 0, 1, 0, 0, 1>>)

\* C8: the block operations write only to their designated output buffers:
\* a run of hamming_decode_74 leaves in_bits as it was and writes decoded_bits
\* only below (total_bits / 7) * 4, and a run of hamming_encode_74 leaves
\* input_bits as it was and writes out_bits only below (total_bits / 4) * 7.
C8_OnlyOutputBuffersWritten ==
    [][/\ pc = "decode74" =>
             /\ in_bits' = in_bits
             /\ DOMAIN decoded_bits' \subseteq 0 .. (total_bits \div 7) * 4 - 1
       /\ pc = "call_encode74" =>
             /\ input_bits' = input_bits
             /\ DOMAIN out_bits' \subseteq 0 .. (total_bits \div 4) * 7 - 1]_vars

\* C9: for any 7-bit array handed to hamming_decode_nibble, the buffer it
\* leaves has syndrome 0, differs from the array in at most one position
\* (in exactly one iff the array's syndrome was non-zero, the index named
\* being below 7), and is the codeword of the nibble returned.
C9_DecodeLeavesCodeword ==
    pc = "decoded" =>
        /\ calculate_syndrome(CodeLen, received) = 0
        /\ Distance(received, ReceivedWord) <= 1
        /\ Distance(received, ReceivedWord) = 1 <=> syndrome # 0
        /\ syndrome - 1 < CodeLen
        /\ received = hamming_encode_nibble(decoded_data, ReceivedWord)

\* C9 witness: an array three flips away from the codeword it came from,
\* moved by the decoder onto a different codeword.
C9_Witness ==
    /\ pc = "decoded"
    /\ Cardinality(flipped) = 3
    /\ syndrome # 0
    /\ Distance(received, ReceivedWord) = 1
    /\ received # encoded_data

\* C10 as stated: for every length n and every bit array of that length,
\* calculate_syndrome returns a value in 0 .. n.
C10_SyndromeWithinLength ==
    pc = "syndrome" => syndrome \in 0 .. n

\* the least number of the form 2^r - 1 that is at least len
AllOnesAtLeast(len) ==
    LET r == CHOOSE x \in 0 .. len : 2 ^ x > len /\ (x = 0 \/ 2 ^ (x - 1) <= len)
    IN  2 ^ r - 1

\* C10 as amended: for every length n and every bit array of that length,
\* calculate_syndrome returns a value in 0 .. 2^r - 1, where r is the number
\* of powers of two that are at most n; that range is 0 .. n when n + 1 is a
\* power of two, as for n = 7.
C10_SyndromeWithinAllOnes ==
    pc = "syndrome" =>
        /\ syndrome \in 0 .. AllOnesAtLeast(n)
        /\ (n = AllOnesAtLeast(n)) => syndrome \in 0 .. n

\* C10 witness: the array 1 1 of length 2, with syndrome 3.
C10_Witness ==
    /\ pc = "syndrome"
    /\ n = 2
    /\ bits = Arr(<<1, 1>>)
    /\ syndrome = 3

=============================================================================
